---- MODULE Spec2Model ----
(***************************************************************************)
(* A model of src/src/nn_kan.ts: the B-spline LearnableFunction, KANEdge,  *)
(* KANNode and the network driver (buildKANNetwork, kanForwardProp,        *)
(* kanBackProp, updateKANWeights).                                         *)
(*                                                                         *)
(* JavaScript numbers are modelled as exact rationals of unbounded size:   *)
(* a number is <<sign, numerator, denominator>>, numerator and denominator *)
(* being magnitudes written as little-endian sequences of limbs.  Rounding *)
(* of IEEE doubles is not modelled.                                        *)
(***************************************************************************)
EXTENDS Integers, Sequences, FiniteSets, TLC

(***************************************************************************)
(* Arithmetic on magnitudes (naturals of any size).                        *)
(***************************************************************************)
\* The limb base of the number representation.
Base == 100 * 100

RECURSIVE MagOf(_)
MagOf(n) == IF n = 0 THEN <<>> ELSE <<n % Base>> \o MagOf(n \div Base)

RECURSIVE MagTrim(_)
MagTrim(a) ==
  IF Len(a) = 0 THEN <<>>
  ELSE IF a[Len(a)] # 0 THEN a ELSE MagTrim(SubSeq(a, 1, Len(a) - 1))

RECURSIVE Carry(_, _, _)
Carry(a, i, c) ==
  IF i > Len(a)
  THEN IF c = 0 THEN <<>> ELSE <<c % Base>> \o Carry(a, i, c \div Base)
  ELSE LET v == a[i] + c IN <<v % Base>> \o Carry(a, i + 1, v \div Base)

Limb(a, i) == IF i <= Len(a) THEN a[i] ELSE 0
MaxInt(a, b) == IF a >= b THEN a ELSE b

MagAdd(a, b) ==
  Carry([i \in 1..MaxInt(Len(a), Len(b)) |-> Limb(a, i) + Limb(b, i)], 1, 0)

\* a - b for a >= b
MagSub(a, b) == MagTrim(Carry([i \in 1..Len(a) |-> a[i] - Limb(b, i)], 1, 0))

RECURSIVE MagCmpFrom(_, _, _)
MagCmpFrom(a, b, i) ==
  IF i = 0 THEN 0
  ELSE IF a[i] > b[i] THEN 1
  ELSE IF a[i] < b[i] THEN -1
  ELSE MagCmpFrom(a, b, i - 1)

MagCmp(a, b) ==
  IF Len(a) > Len(b) THEN 1
  ELSE IF Len(a) < Len(b) THEN -1
  ELSE MagCmpFrom(a, b, Len(a))

RECURSIVE ConvSum(_, _, _, _)
ConvSum(a, b, k, i) ==
  IF i > Len(a) \/ i > k THEN 0
  ELSE (IF k + 1 - i <= Len(b) THEN a[i] * b[k + 1 - i] ELSE 0)
       + ConvSum(a, b, k, i + 1)

MagMul(a, b) ==
  IF Len(a) = 0 \/ Len(b) = 0 THEN <<>>
  ELSE IF Len(b) = 1 /\ b[1] = 1 THEN a
  ELSE IF Len(a) = 1 /\ a[1] = 1 THEN b
  ELSE IF Len(b) = 1 THEN Carry([i \in 1..Len(a) |-> a[i] * b[1]], 1, 0)
  ELSE IF Len(a) = 1 THEN Carry([i \in 1..Len(b) |-> a[1] * b[i]], 1, 0)
  ELSE Carry([k \in 1..(Len(a) + Len(b) - 1) |-> ConvSum(a, b, k, 1)], 1, 0)

RECURSIVE DivFrom(_, _, _, _)
DivFrom(a, s, i, r) ==
  IF i = 0 THEN <<>>
  ELSE LET v == r * Base + a[i] IN DivFrom(a, s, i - 1, v % s) \o <<v \div s>>

MagDivSmall(a, s) == MagTrim(DivFrom(a, s, Len(a), 0))

RECURSIVE ModFrom(_, _, _, _)
ModFrom(a, s, i, r) ==
  IF i = 0 THEN r ELSE ModFrom(a, s, i - 1, (r * Base + a[i]) % s)

MagModSmall(a, s) == ModFrom(a, s, Len(a), 0)

\* whether s divides a # 0; when s divides Base the lowest limb decides
Divides(s, a) ==
  IF Base % s = 0 THEN a[1] % s = 0 ELSE MagModSmall(a, s) = 0

\* Common factors taken out of a fraction.  Every divisor the program uses
\* (knot differences, gradient counts, the finite-difference step) has only
\* these prime factors, so fractions stay in lowest terms.
Divisors == <<16, 2, 625, 5, 9, 3, 7>>

RECURSIVE Strip(_, _, _)
Strip(n, d, k) ==
  IF k > Len(Divisors) \/ (Len(d) = 1 /\ d[1] = 1) THEN <<n, d>>
  ELSE IF n[1] = 0 /\ d[1] = 0 THEN Strip(Tail(n), Tail(d), k)
  ELSE IF Divides(Divisors[k], d) /\ Divides(Divisors[k], n)
       THEN Strip(MagDivSmall(n, Divisors[k]), MagDivSmall(d, Divisors[k]), k)
       ELSE Strip(n, d, k + 1)

(***************************************************************************)
(* Rationals.                                                              *)
(***************************************************************************)
Zero == <<0, <<>>, <<1>>>>
One == <<1, <<1>>, <<1>>>>

RNorm(s, n, d) ==
  IF Len(n) = 0 THEN Zero ELSE <<s>> \o Strip(n, d, 1)

\* The rational a / b of two machine integers, b > 0.
Rat(a, b) ==
  RNorm(IF a > 0 THEN 1 ELSE IF a < 0 THEN -1 ELSE 0,
        MagOf(IF a < 0 THEN 0 - a ELSE a), MagOf(b))

SAdd(s1, m1, s2, m2) ==
  IF s1 = 0 THEN <<s2, m2>>
  ELSE IF s2 = 0 THEN <<s1, m1>>
  ELSE IF s1 = s2 THEN <<s1, MagAdd(m1, m2)>>
  ELSE LET c == MagCmp(m1, m2) IN
       IF c = 0 THEN <<0, <<>>>>
       ELSE IF c > 0 THEN <<s1, MagSub(m1, m2)>>
       ELSE <<s2, MagSub(m2, m1)>>

\* the signed magnitude r over the denominator d
ROver(r, d) == RNorm(r[1], r[2], d)

RAdd(p, q) ==
  IF p[1] = 0 THEN q
  ELSE IF q[1] = 0 THEN p
  ELSE IF p[3] = q[3]
       THEN ROver(SAdd(p[1], p[2], q[1], q[2]), p[3])
       ELSE ROver(SAdd(p[1], MagMul(p[2], q[3]), q[1], MagMul(q[2], p[3])),
                  MagMul(p[3], q[3]))

RNeg(p) == <<0 - p[1], p[2], p[3]>>
RSub(p, q) == RAdd(p, RNeg(q))

RMul(p, q) ==
  IF p[1] = 0 \/ q[1] = 0 THEN Zero
  ELSE RNorm(p[1] * q[1], MagMul(p[2], q[2]), MagMul(p[3], q[3]))

\* p / q for q # 0
RDiv(p, q) ==
  IF p[1] = 0 THEN Zero
  ELSE RNorm(p[1] * q[1], MagMul(p[2], q[3]), MagMul(p[3], q[2]))

RCmp(p, q) ==
  IF p[1] # q[1] THEN (IF p[1] < q[1] THEN -1 ELSE 1)
  ELSE IF p[1] = 0 THEN 0
  ELSE p[1] * MagCmp(MagMul(p[2], q[3]), MagMul(q[2], p[3]))

RLt(p, q) == RCmp(p, q) < 0
RLe(p, q) == RCmp(p, q) <= 0
RGe(p, q) == RCmp(p, q) >= 0
REq(p, q) == RCmp(p, q) = 0
RMax(p, q) == IF RLt(p, q) THEN q ELSE p
RMin(p, q) == IF RLt(q, p) THEN q ELSE p

\* The element at a 0-based index, as the program's arrays are indexed.
At(s, i) == s[i + 1]

RECURSIVE RSum(_, _)
RSum(s, i) == IF i > Len(s) THEN Zero ELSE RAdd(s[i], RSum(s, i + 1))

SeqEq(s, t) == Len(s) = Len(t) /\ \A i \in 1..Len(s) : REq(s[i], t[i])

(***************************************************************************)
(* LearnableFunction: a clamped B-spline.  A LearnableFunction object is a *)
(* record [id, gridSize, degree, inputRange, knotVector, controlPoints].   *)
(***************************************************************************)
initializeKnotVector(gridSize, degree, inputRange) ==
  LET min == inputRange[1]
      max == inputRange[2]
      numControlPoints == gridSize + 1
      numKnots == numControlPoints + degree + 1
      numInternalKnots == numKnots - 2 * (degree + 1)
  IN  [i \in 1..(degree + 1) |-> min]
      \o [i \in 1..numInternalKnots |->
            RAdd(min, RDiv(RMul(RSub(max, min), Rat(i, 1)),
                           Rat(numInternalKnots + 1, 1)))]
      \o [i \in 1..(degree + 1) |-> max]

\* rands: the values Math.random() returns, in the order of the calls
initializeControlPoints(gridSize, rands) ==
  LET numControlPoints == gridSize + 1
  IN  [i \in 1..numControlPoints |->
         RMul(RSub(rands[i], Rat(1, 2)), Rat(3, 10))]

MinInt(a, b) == IF a <= b THEN a ELSE b

NewLearnableFunction(id, gridSize, range, degree, rands) ==
  LET deg == MinInt(degree, gridSize - 1)
  IN  [id |-> id,
       gridSize |-> gridSize,
       degree |-> deg,
       inputRange |-> range,
       knotVector |-> initializeKnotVector(gridSize, deg, range),
       controlPoints |-> initializeControlPoints(gridSize, rands)]

RECURSIVE knotSearch(_, _, _, _, _)
knotSearch(lf, x, low, high, mid) ==
  IF RLt(x, At(lf.knotVector, mid)) \/ RGe(x, At(lf.knotVector, mid + 1))
  THEN IF RLt(x, At(lf.knotVector, mid))
       THEN knotSearch(lf, x, low, mid, (low + mid) \div 2)
       ELSE knotSearch(lf, x, mid, high, (mid + high) \div 2)
  ELSE mid

\* a search that answers p up to and including the knot after knotVector[p]
findKnotSpanLate(lf, x) ==
  LET n == Len(lf.controlPoints) - 1
      p == lf.degree
  IN  IF RGe(x, At(lf.knotVector, n + 1)) THEN n
      ELSE IF RLe(x, At(lf.knotVector, p + 1)) THEN p
      ELSE knotSearch(lf, x, p, n + 1, (p + n + 1) \div 2)

findKnotSpan(lf, x) ==
  LET n == Len(lf.controlPoints) - 1
      p == lf.degree
  IN  IF RGe(x, At(lf.knotVector, n + 1)) THEN n
      ELSE IF RLe(x, At(lf.knotVector, p)) THEN p
      ELSE knotSearch(lf, x, p, n + 1, (p + n + 1) \div 2)

\* the loops of deBoor: r = 1..p outside, j = p down to r inside, on array d
RECURSIVE deBoorLoop(_, _, _, _, _, _)
deBoorLoop(lf, span, x, d, r, j) ==
  LET p == lf.degree IN
  IF r > p THEN d
  ELSE IF j < r THEN deBoorLoop(lf, span, x, d, r + 1, p)
  ELSE LET knotLeft == At(lf.knotVector, span - p + j)
           knotRight == At(lf.knotVector, span + j - r + 1)
           dj(alpha) ==
             RAdd(RMul(RSub(One, alpha), At(d, j - 1)), RMul(alpha, At(d, j)))
       IN  deBoorLoop(lf, span, x,
                      [d EXCEPT ![j + 1] =
                         dj(RDiv(RSub(x, knotLeft), RSub(knotRight, knotLeft)))],
                      r, j - 1)

deBoor(lf, span, x) ==
  LET p == lf.degree
      d == [j \in 1..(p + 1) |-> At(lf.controlPoints, span - p + (j - 1))]
  IN  At(deBoorLoop(lf, span, x, d, 1, p), p)

\* an evaluate that does not clamp its input to the range
clampNone(lf, x) == x

clamp(lf, x) == RMax(lf.inputRange[1], RMin(lf.inputRange[2], x))

\* the spline at an input already clamped to the range
evaluateClamped(lf, xc) == deBoor(lf, findKnotSpan(lf, xc), xc)

evaluate(lf, x) == evaluateClamped(lf, clamp(lf, x))

\* the finite-difference step 1e-6 and the collapse threshold 1e-10
h == Rat(1, 1000000)
minWidth == RMul(Rat(1, 100000), Rat(1, 100000))

\* the difference quotient between the two clamped points x1 and x2
differenceQuotient(lf, x1, x2) ==
  IF RLt(RSub(x2, x1), minWidth) THEN Zero
  ELSE RDiv(RSub(evaluate(lf, x2), evaluate(lf, x1)), RSub(x2, x1))

derivative(lf, x) ==
  differenceQuotient(lf, RMax(lf.inputRange[1], RSub(x, h)),
                     RMin(lf.inputRange[2], RAdd(x, h)))


\* an update that forgets the learning rate
LFupdateParametersNoRate(lf, gradients, learningRate) ==
  [lf EXCEPT !.controlPoints =
     [i \in 1..Len(lf.controlPoints) |->
        IF i <= Len(gradients)
        THEN RSub(lf.controlPoints[i], gradients[i])
        ELSE lf.controlPoints[i]]]

LFupdateParameters(lf, gradients, learningRate) ==
  [lf EXCEPT !.controlPoints =
     [i \in 1..Len(lf.controlPoints) |->
        IF i <= Len(gradients)
        THEN RSub(lf.controlPoints[i], RMul(learningRate, gradients[i]))
        ELSE lf.controlPoints[i]]]

\* the loops of computeBasisFunctions: the inner loop r = 0..j-1 returns
\* <<basisFunctions, saved>>
\* an inner loop that saves the right-hand term for the next basis function
RECURSIVE basisInnerRight(_, _, _, _, _, _, _)
basisInnerRight(lf, span, x, basis, j, r, saved) ==
  IF r >= j THEN <<basis, saved>>
  ELSE LET next(rightr1, leftjr, temp) ==
             basisInnerRight(lf, span, x,
                  [basis EXCEPT ![r + 1] = RAdd(saved, RMul(rightr1, temp))],
                  j, r + 1, RMul(rightr1, temp))
           with(rightr1, leftjr) ==
             next(rightr1, leftjr, RDiv(At(basis, r), RAdd(rightr1, leftjr)))
       IN  with(RSub(At(lf.knotVector, span + (r + 1)), x),
                RSub(x, At(lf.knotVector, span + 1 - (j - r))))

RECURSIVE basisInner(_, _, _, _, _, _, _)
basisInner(lf, span, x, basis, j, r, saved) ==
  IF r >= j THEN <<basis, saved>>
  ELSE LET next(rightr1, leftjr, temp) ==
             basisInner(lf, span, x,
                  [basis EXCEPT ![r + 1] = RAdd(saved, RMul(rightr1, temp))],
                  j, r + 1, RMul(leftjr, temp))
           with(rightr1, leftjr) ==
             next(rightr1, leftjr, RDiv(At(basis, r), RAdd(rightr1, leftjr)))
       IN  with(RSub(At(lf.knotVector, span + (r + 1)), x),
                RSub(x, At(lf.knotVector, span + 1 - (j - r))))

RECURSIVE basisOuter(_, _, _, _, _)
basisOuter(lf, span, x, basis, j) ==
  IF j > lf.degree THEN basis
  ELSE LET next(res) ==
             basisOuter(lf, span, x, [res[1] EXCEPT ![j + 1] = res[2]], j + 1)
       IN  next(basisInner(lf, span, x, basis, j, 0, Zero))

computeBasisFunctions(lf, span, x) ==
  basisOuter(lf, span, x,
             [j \in 1..(lf.degree + 1) |-> IF j = 1 THEN One ELSE Zero], 1)

\* the gradients, given the span of the clamped input and the basis
\* functions computed for it
gradientsOfSpan(lf, span, basisFunctions) ==
  LET p == lf.degree
      len == Len(lf.controlPoints)
  IN  [c \in 1..len |->
         LET j == (c - 1) - (span - p)
         IN  IF j >= 0 /\ j <= p THEN At(basisFunctions, j) ELSE Zero]

getControlPointGradients(lf, x) ==
  LET inSpan(xc, span) ==
        gradientsOfSpan(lf, span, computeBasisFunctions(lf, span, xc))
      at(xc) == inSpan(xc, findKnotSpan(lf, xc))
  IN  at(clamp(lf, x))

(***************************************************************************)
(* KANEdge: a record [id, sourceNode, destNode, learnableFunction,         *)
(* lastInput, accGradients, numAccumulatedGrads]; a node is referred to by *)
(* <<layer, position>>, both 1-based.                                      *)
(***************************************************************************)
NewKANEdge(source, dest, sourceId, destId, gridSize, degree, rands) ==
  [id |-> <<sourceId, destId>>,
   sourceNode |-> source,
   destNode |-> dest,
   learnableFunction |->
     NewLearnableFunction(<<sourceId, destId>>, gridSize,
                          <<Rat(-1, 1), Rat(1, 1)>>, degree, rands),
   lastInput |-> Zero,
   accGradients |-> [i \in 1..(gridSize + 1) |-> Zero],
   numAccumulatedGrads |-> 0]

\* forward returns the edge as it is left and the value: <<edge, output>>
edgeForward(edge, input) ==
  <<[edge EXCEPT !.lastInput = input], evaluate(edge.learnableFunction, input)>>

\* an accumulation that does not count itself
accumulateGradientsNoCount(edge, outputGradient) ==
  LET add(controlPointGradients) ==
        [edge EXCEPT
           !.accGradients =
              [i \in 1..Len(edge.accGradients) |->
                 IF i <= Len(controlPointGradients)
                 THEN RAdd(edge.accGradients[i],
                           RMul(outputGradient, controlPointGradients[i]))
                 ELSE edge.accGradients[i]]]
  IN  add(getControlPointGradients(edge.learnableFunction, edge.lastInput))

accumulateGradients(edge, outputGradient) ==
  LET add(controlPointGradients) ==
        [edge EXCEPT
           !.accGradients =
              [i \in 1..Len(edge.accGradients) |->
                 IF i <= Len(controlPointGradients)
                 THEN RAdd(edge.accGradients[i],
                           RMul(outputGradient, controlPointGradients[i]))
                 ELSE edge.accGradients[i]],
           !.numAccumulatedGrads = edge.numAccumulatedGrads + 1]
  IN  add(getControlPointGradients(edge.learnableFunction, edge.lastInput))


\* an update that leaves the accumulated gradients in place
edgeUpdateParametersKeepAcc(edge, learningRate) ==
  IF edge.numAccumulatedGrads > 0
  THEN LET avgGradients ==
             [i \in 1..Len(edge.accGradients) |->
                RDiv(edge.accGradients[i], Rat(edge.numAccumulatedGrads, 1))]
       IN  [edge EXCEPT
              !.learnableFunction =
                 [edge.learnableFunction EXCEPT !.controlPoints =
                    [i \in 1..Len(edge.learnableFunction.controlPoints) |->
                       RSub(edge.learnableFunction.controlPoints[i],
                            RMul(learningRate, avgGradients[i]))]],
              !.numAccumulatedGrads = 0]
  ELSE edge

\* an update that applies the summed gradients without dividing by their number
edgeUpdateParametersNoAvg(edge, learningRate) ==
  IF edge.numAccumulatedGrads > 0
  THEN [edge EXCEPT
          !.learnableFunction =
             LFupdateParameters(edge.learnableFunction, edge.accGradients,
                                learningRate),
          !.accGradients = [i \in 1..Len(edge.accGradients) |-> Zero],
          !.numAccumulatedGrads = 0]
  ELSE edge

edgeUpdateParameters(edge, learningRate) ==
  IF edge.numAccumulatedGrads > 0
  THEN LET avgGradients ==
             [i \in 1..Len(edge.accGradients) |->
                RDiv(edge.accGradients[i], Rat(edge.numAccumulatedGrads, 1))]
       IN  [edge EXCEPT
              !.learnableFunction =
                 LFupdateParameters(edge.learnableFunction, avgGradients,
                                    learningRate),
              !.accGradients = [i \in 1..Len(edge.accGradients) |-> Zero],
              !.numAccumulatedGrads = 0]
  ELSE edge

(***************************************************************************)
(* KANNode: a record [id, inputEdges, outputEdges, output, outputDer,      *)
(* bias]; inputEdges and outputEdges hold edge objects, each named by its  *)
(* index in edges.  A heap is [network, edges]: the node objects by layer  *)
(* and the edge objects.                                                   *)
(***************************************************************************)
NewKANNode(id, useBias, rand) ==
  [id |-> id,
   inputEdges |-> <<>>,
   outputEdges |-> <<>>,
   output |-> Zero,
   outputDer |-> Zero,
   bias |-> IF useBias THEN RMul(RSub(rand, Rat(1, 2)), Rat(1, 10)) ELSE Zero]

NodeAt(H, ref) == H.network[ref[1]][ref[2]]

\* the loop of KANNode.forward over inputEdges, from the k-th edge on
RECURSIVE nodeForwardLoop(_, _, _)
nodeForwardLoop(H, ref, k) ==
  LET node == NodeAt(H, ref) IN
  IF k > Len(node.inputEdges) THEN H
  ELSE LET e == node.inputEdges[k]
           edge == H.edges[e]
           next(res) ==
             nodeForwardLoop(
               [H EXCEPT !.edges[e] = res[1],
                         !.network[ref[1]][ref[2]].output =
                            RAdd(node.output, res[2])],
               ref, k + 1)
       IN  next(edgeForward(edge, NodeAt(H, edge.sourceNode).output))


\* a forward that starts the sum at 0 instead of the bias
nodeForwardNoBias(H, ref) ==
  nodeForwardLoop([H EXCEPT !.network[ref[1]][ref[2]].output = Zero], ref, 1)

nodeForward(H, ref) ==
  nodeForwardLoop(
    [H EXCEPT !.network[ref[1]][ref[2]].output = NodeAt(H, ref).bias], ref, 1)

\* the loop of KANNode.backward over inputEdges, from the k-th edge on
\* the loop of backward with the source's outputDer assigned, not added to
RECURSIVE nodeBackwardLoopAssign(_, _, _)
nodeBackwardLoopAssign(H, ref, k) ==
  LET node == NodeAt(H, ref) IN
  IF k > Len(node.inputEdges) THEN H
  ELSE LET e == node.inputEdges[k]
           edge == H.edges[e]
           src == edge.sourceNode
           inputGrad == RMul(node.outputDer,
                             derivative(edge.learnableFunction, edge.lastInput))
       IN  nodeBackwardLoopAssign(
             [H EXCEPT !.edges[e] = accumulateGradients(edge, node.outputDer),
                       !.network[src[1]][src[2]].outputDer = inputGrad],
             ref, k + 1)

RECURSIVE nodeBackwardLoop(_, _, _)
nodeBackwardLoop(H, ref, k) ==
  LET node == NodeAt(H, ref) IN
  IF k > Len(node.inputEdges) THEN H
  ELSE LET e == node.inputEdges[k]
           edge == H.edges[e]
           src == edge.sourceNode
           inputGrad == RMul(node.outputDer,
                             derivative(edge.learnableFunction, edge.lastInput))
       IN  nodeBackwardLoop(
             [H EXCEPT !.edges[e] = accumulateGradients(edge, node.outputDer),
                       !.network[src[1]][src[2]].outputDer =
                          RAdd(NodeAt(H, src).outputDer, inputGrad)],
             ref, k + 1)

nodeBackward(H, ref) == nodeBackwardLoop(H, ref, 1)

(***************************************************************************)
(* The network driver.                                                     *)
(***************************************************************************)
RECURSIVE SumTo(_, _)
\* the number of nodes in layers 2..l (1-based) of a shape
SumTo(shape, l) == IF l < 2 THEN 0 ELSE shape[l] + SumTo(shape, l - 1)

RECURSIVE EdgesTo(_, _)
\* the number of edges constructed for layers 2..l (1-based) of a shape
EdgesTo(shape, l) ==
  IF l < 2 THEN 0 ELSE shape[l - 1] * shape[l] + EdgesTo(shape, l - 1)

\* The index in edges of the edge from node s of layer l-1 to node d of layer
\* l: edges are constructed layer by layer, destination by destination,
\* source by source.
EdgeIndex(shape, l, d, s) == EdgesTo(shape, l - 1) + (d - 1) * shape[l - 1] + s

\* what the pushes of the edge loops leave in a node's inputEdges and
\* outputEdges: for node i of layer l, one edge per node of the layer before,
\* and one per node of the layer after
inputEdgesOf(networkShape, l, i) ==
  IF l = 1 THEN <<>>
  ELSE [s \in 1..networkShape[l - 1] |-> EdgeIndex(networkShape, l, i, s)]


\* a build that forgets sourceNode.outputEdges.push(edge)
outputEdgesOfNoPush(networkShape, l, i) == <<>>

outputEdgesOf(networkShape, l, i) ==
  IF l = Len(networkShape) THEN <<>>
  ELSE [d \in 1..networkShape[l + 1] |-> EdgeIndex(networkShape, l + 1, d, i)]

\* random is the sequence of values Math.random() returns during the call.
\* The nodes are constructed first, each non-input node drawing its bias when
\* useBias holds, then the edges, each drawing gridSize + 1 control points.
buildKANNetwork(networkShape, inputIds, gridSize, degree, useBias, random) ==
  LET numLayers == Len(networkShape)
      nodeId(l, i) == 1 + SumTo(networkShape, l - 1) + (i - 1)
      idOf(l, i) ==
        IF l = 1
        THEN IF i <= Len(inputIds) THEN inputIds[i] ELSE "undefined"
        ELSE ToString(nodeId(l, i))
      numBias == IF useBias THEN SumTo(networkShape, numLayers) ELSE 0
      randOfNode(l, i) == IF useBias /\ l > 1 THEN random[nodeId(l, i)] ELSE Zero
      randsOfEdge(e) ==
        [c \in 1..(gridSize + 1) |-> random[numBias + (e - 1) * (gridSize + 1) + c]]
      node(l, i) ==
        [NewKANNode(idOf(l, i), useBias /\ l # 1, randOfNode(l, i)) EXCEPT
           !.inputEdges = inputEdgesOf(networkShape, l, i),
           !.outputEdges = outputEdgesOf(networkShape, l, i)]
      edgeOf(l, d, s) ==
        NewKANEdge(<<l - 1, s>>, <<l, d>>, idOf(l - 1, s), idOf(l, d), gridSize,
                   degree, randsOfEdge(EdgeIndex(networkShape, l, d, s)))
      numEdges == EdgesTo(networkShape, numLayers)
  IN  [network |->
         [l \in 1..numLayers |-> [i \in 1..networkShape[l] |-> node(l, i)]],
       edges |->
         [e \in 1..numEdges |->
            LET l == CHOOSE m \in 2..numLayers :
                       EdgesTo(networkShape, m - 1) < e /\ e <= EdgesTo(networkShape, m)
                k == e - EdgesTo(networkShape, l - 1)
                d == ((k - 1) \div networkShape[l - 1]) + 1
                s == ((k - 1) % networkShape[l - 1]) + 1
            IN  edgeOf(l, d, s)]]

\* During a pass the heap carries visits: the nodes on which the pass has
\* called forward or backward so far, in the order of the calls.
startPass(H) == [network |-> H.network, edges |-> H.edges, visits |-> <<>>]
visited(H, ref) == [H EXCEPT !.visits = Append(H.visits, ref)]

\* the nodes of one layer processed in the given order, from the k-th on
RECURSIVE forwardNodes(_, _, _, _)
forwardNodes(H, l, order, k) ==
  IF k > Len(order) THEN H
  ELSE forwardNodes(visited(nodeForward(H, <<l, order[k]>>), <<l, order[k]>>),
                    l, order, k + 1)

\* the order in which a for-of loop visits the nodes of layer l, and these
\* orders for all the layers of a network
LayerOrder(H, l) == [i \in 1..Len(H.network[l]) |-> i]
IterationOrders(H) == [l \in 1..Len(H.network) |-> LayerOrder(H, l)]

\* the layer loop of kanForwardProp from layer l on, the nodes of layer m
\* being processed in the order orders[m]
RECURSIVE forwardLayersIn(_, _, _)
forwardLayersIn(H, l, orders) ==
  IF l > Len(H.network) THEN H
  ELSE forwardLayersIn(forwardNodes(H, l, orders[l], 1), l + 1, orders)

forwardLayers(H, l) == forwardLayersIn(H, l, IterationOrders(H))


\* what kanForwardProp returns once the layers have been run: the value is
\* the output of the first node of the last layer
forwardResult(H) ==
  [threw |-> FALSE, heap |-> H, value |-> H.network[Len(H.network)][1].output]

\* a forwardProp that writes the inputs it has before checking their number
kanForwardPropEager(H, inputs) ==
  LET inputLayer == H.network[1]
      H1 == [startPass(H) EXCEPT !.network[1] =
               [i \in 1..Len(inputLayer) |->
                  IF i <= Len(inputs)
                  THEN [inputLayer[i] EXCEPT !.output = inputs[i]]
                  ELSE inputLayer[i]]]
  IN  IF Len(inputs) # Len(inputLayer)
      THEN [threw |-> TRUE, heap |-> H1, value |-> Zero]
      ELSE forwardResult(forwardLayers(H1, 2))

\* kanForwardProp, the nodes of layer m being processed in the order
\* orders[m]; it returns [threw, heap, value]
kanForwardPropIn(H, inputs, orders) ==
  LET inputLayer == H.network[1] IN
  IF Len(inputs) # Len(inputLayer)
  THEN [threw |-> TRUE, heap |-> startPass(H), value |-> Zero]
  ELSE LET H1 == [startPass(H) EXCEPT !.network[1] =
                     [i \in 1..Len(inputLayer) |->
                        [inputLayer[i] EXCEPT !.output = inputs[i]]]]
       IN  forwardResult(forwardLayersIn(H1, 2, orders))

kanForwardProp(H, inputs) == kanForwardPropIn(H, inputs, IterationOrders(H))

\* the loss derivatives a caller passes as errorFunc.der
errorDer(errorFunc, output, target) ==
  IF errorFunc = "SQUARE" THEN RSub(output, target) ELSE One

RECURSIVE backwardNodes(_, _, _, _)
backwardNodes(H, l, order, k) ==
  IF k > Len(order) THEN H
  ELSE backwardNodes(visited(nodeBackward(H, <<l, order[k]>>), <<l, order[k]>>),
                     l, order, k + 1)


\* a backward pass that does not clear the previous layer's outputDer
resetLayerNone(H, l) == H

resetLayer(H, l) ==
  [H EXCEPT !.network[l] =
     [i \in 1..Len(H.network[l]) |-> [H.network[l][i] EXCEPT !.outputDer = Zero]]]

\* the layer loop of kanBackProp from layer l down, l being the 1-based index
\* of the layer, the nodes of layer m being processed in the order orders[m]
RECURSIVE backwardLayersIn(_, _, _)
backwardLayersIn(H, l, orders) ==
  IF l < 2 THEN H
  ELSE LET H1 == IF l > 2 THEN resetLayer(H, l - 1) ELSE H
       IN  backwardLayersIn(backwardNodes(H1, l, orders[l], 1), l - 1, orders)

backwardLayers(H, l) == backwardLayersIn(H, l, IterationOrders(H))

\* a backward pass that adds the error derivative to the output node's
\* outputDer instead of assigning it
kanBackPropAdd(H, target, errorFunc) ==
  LET last == Len(H.network)
      outputNode == H.network[last][1]
      H1 == [startPass(H) EXCEPT !.network[last][1].outputDer =
               RAdd(outputNode.outputDer,
                    errorDer(errorFunc, outputNode.output, target))]
  IN  backwardLayers(H1, last)

\* kanBackProp, the nodes of layer m being processed in the order orders[m]
kanBackPropIn(H, target, errorFunc, orders) ==
  LET last == Len(H.network)
      outputNode == H.network[last][1]
      H1 == [startPass(H) EXCEPT !.network[last][1].outputDer =
               errorDer(errorFunc, outputNode.output, target)]
  IN  backwardLayersIn(H1, last, orders)

kanBackProp(H, target, errorFunc) ==
  kanBackPropIn(H, target, errorFunc, IterationOrders(H))

\* one node of updateKANWeights: the bias, then the input edges in order
RECURSIVE updateEdges(_, _, _, _)
updateEdges(H, ref, learningRate, k) ==
  LET node == NodeAt(H, ref) IN
  IF k > Len(node.inputEdges) THEN H
  ELSE LET e == node.inputEdges[k]
       IN  updateEdges([H EXCEPT !.edges[e] =
                          edgeUpdateParameters(H.edges[e], learningRate)],
                       ref, learningRate, k + 1)

\* an update that steps the bias only of a node whose input edges hold
\* accumulated gradients
updateNodeGated(H, ref, learningRate) ==
  LET node == NodeAt(H, ref)
      fresh == \E k \in 1..Len(node.inputEdges) :
                 H.edges[node.inputEdges[k]].numAccumulatedGrads > 0
      H1 == IF ~REq(node.bias, Zero) /\ fresh
            THEN [H EXCEPT !.network[ref[1]][ref[2]].bias =
                    RSub(node.bias, RMul(learningRate, node.outputDer))]
            ELSE H
  IN  updateEdges(H1, ref, learningRate, 1)

\* an update that steps the bias whether or not it is 0
updateNodeAlways(H, ref, learningRate) ==
  LET node == NodeAt(H, ref)
      H1 == [H EXCEPT !.network[ref[1]][ref[2]].bias =
               RSub(node.bias, RMul(learningRate, node.outputDer))]
  IN  updateEdges(H1, ref, learningRate, 1)

updateNode(H, ref, learningRate) ==
  LET node == NodeAt(H, ref)
      H1 == IF ~REq(node.bias, Zero)
            THEN [H EXCEPT !.network[ref[1]][ref[2]].bias =
                    RSub(node.bias, RMul(learningRate, node.outputDer))]
            ELSE H
  IN  updateEdges(H1, ref, learningRate, 1)

RECURSIVE updateNodes(_, _, _, _)
updateNodes(H, l, learningRate, i) ==
  IF i > Len(H.network[l]) THEN H
  ELSE updateNodes(updateNode(H, <<l, i>>, learningRate), l, learningRate, i + 1)

RECURSIVE updateLayers(_, _, _)
updateLayers(H, l, learningRate) ==
  IF l > Len(H.network) THEN H
  ELSE updateLayers(updateNodes(H, l, learningRate, 1), l + 1, learningRate)

\* an update that clears every node's outputDer once it has used it
updateKANWeightsClearDer(H, learningRate) ==
  LET H1 == updateLayers(H, 2, learningRate)
  IN  [H1 EXCEPT !.network =
         [l \in 1..Len(H1.network) |->
            [i \in 1..Len(H1.network[l]) |->
               [H1.network[l][i] EXCEPT !.outputDer = Zero]]]]

updateKANWeights(H, learningRate) == updateLayers(H, 2, learningRate)

VARIABLES
  built,     \* whether buildKANNetwork has returned a network
  network,   \* KANNode[][]: the layers of node objects
  edges,     \* the KANEdge objects, in the order they were constructed
  hist,      \* the calls made so far, each with its arguments and outcome
  probe      \* a single LearnableFunction or KANEdge object under test

vars == <<built, network, edges, hist, probe>>

(***************************************************************************)
(* The calls a client makes on a network, as actions.                      *)
(***************************************************************************)
\* the longest sequence of calls made on one network
MaxSteps == 3

\* values Math.random() may return, and the streams of them a build may see
RandomValues == <<Rat(1, 2), Rat(1, 4), Rat(9, 10), Rat(0, 1), Rat(3, 4)>>
RandomStream(seed, len) ==
  [k \in 1..len |->
     RandomValues[((seed + (seed + 1) * (k - 1)) % Len(RandomValues)) + 1]]

Config(shape, inputIds, gridSize, degree, useBias, seed) ==
  [shape |-> shape, inputIds |-> inputIds, gridSize |-> gridSize,
   degree |-> degree, useBias |-> useBias, seed |-> seed]

\* the arguments build is called with (and the random stream it meets):
\* valid ones, one whose inputIds are too few, one whose last layer has two
\* nodes
Configs ==
  { Config(<<1, 1>>, <<"x1">>, 4, 3, TRUE, 0),
    Config(<<1, 1>>, <<"x1">>, 1, 3, TRUE, 1),
    Config(<<2, 2, 1>>, <<"x1", "x2">>, 2, 1, TRUE, 1),
    Config(<<1, 2, 1>>, <<"x1">>, 3, 2, FALSE, 0),
    Config(<<2, 3, 1>>, <<"x1", "x2">>, 2, 1, FALSE, 1),
    Config(<<2, 1>>, <<"x1">>, 2, 1, FALSE, 0),
    Config(<<1, 2>>, <<"x1">>, 2, 0, TRUE, 1) }

ValidConfig(cfg) ==
  /\ Len(cfg.inputIds) = cfg.shape[1]
  /\ cfg.shape[Len(cfg.shape)] = 1

\* the input vectors, targets, loss derivatives and learning rates of the calls
InputVectors ==
  { <<Rat(3, 10)>>, <<Rat(-3, 2)>>,
    <<Rat(1, 2), Rat(-1, 1)>>, <<Rat(0, 1), Rat(7, 10)>> }
Targets == {Rat(1, 1)}
ErrorFuncs == {"SQUARE"}
LearningRates == {Rat(0, 1), Rat(1, 2)}

Heap == [network |-> network, edges |-> edges]

NumDraws(cfg) ==
  SumTo(cfg.shape, Len(cfg.shape))
    + EdgesTo(cfg.shape, Len(cfg.shape)) * (cfg.gridSize + 1)

\* the network a build call with these arguments returns
BuiltHeap(cfg) ==
  buildKANNetwork(cfg.shape, cfg.inputIds, cfg.gridSize, cfg.degree, cfg.useBias,
                  RandomStream(cfg.seed, NumDraws(cfg)))

Init ==
  /\ built = FALSE
  /\ network = <<>>
  /\ edges = <<>>
  /\ hist = <<>>
  /\ probe = <<>>

Build(cfg) ==
  /\ ~built
  /\ hist = <<>>
  /\ probe = <<>>
  /\ \E H \in {BuiltHeap(cfg)} :
       /\ network' = H.network
       /\ edges' = H.edges
  /\ built' = TRUE
  /\ hist' = <<[op |-> "build", cfg |-> cfg, threw |-> FALSE]>>
  /\ UNCHANGED probe

ForwardProp(inputs, bound) ==
  /\ built
  /\ Len(hist) <= bound
  /\ \E res \in {kanForwardProp(Heap, inputs)} :
       /\ network' = res.heap.network
       /\ edges' = res.heap.edges
       /\ hist' = Append(hist, [op |-> "forwardProp", inputs |-> inputs,
                                 threw |-> res.threw, value |-> res.value,
                                 visits |-> res.heap.visits])
  /\ UNCHANGED <<built, probe>>

BackProp(target, errorFunc, bound) ==
  /\ built
  /\ Len(hist) <= bound
  /\ \E H \in {kanBackProp(Heap, target, errorFunc)} :
       /\ network' = H.network
       /\ edges' = H.edges
       /\ hist' = Append(hist, [op |-> "backProp", target |-> target,
                                 errorFunc |-> errorFunc, threw |-> FALSE,
                                 visits |-> H.visits])
  /\ UNCHANGED <<built, probe>>

UpdateWeights(learningRate, bound) ==
  /\ built
  /\ Len(hist) <= bound
  /\ \E H \in {updateKANWeights(Heap, learningRate)} :
       /\ network' = H.network
       /\ edges' = H.edges
  /\ hist' = Append(hist, [op |-> "updateWeights", learningRate |-> learningRate,
                            threw |-> FALSE])
  /\ UNCHANGED <<built, probe>>

Next ==
  \/ \E cfg \in Configs : Build(cfg)
  \/ \E inputs \in InputVectors : ForwardProp(inputs, MaxSteps)
  \/ \E target \in Targets, errorFunc \in ErrorFuncs :
       BackProp(target, errorFunc, MaxSteps)
  \/ \E learningRate \in LearningRates : UpdateWeights(learningRate, MaxSteps)

Spec == Init /\ [][Next]_vars

\* the call that led to the current state, and the number of calls made
Last == hist[Len(hist)]
NumCalls == Len(hist)

\* the transition is a call of the named operation
Calls(name) == Len(hist') = Len(hist) + 1 /\ hist'[Len(hist')].op = name
NewCall == hist'[Len(hist')]

HiddenAndOutput == { <<l, i>> \in (2..Len(network)) \X (1..5) : i <= Len(network[l]) }
AllNodes == { <<l, i>> \in (1..Len(network)) \X (1..5) : i <= Len(network[l]) }

(***************************************************************************)
(* The properties of the network operations.                               *)
(***************************************************************************)

\* C1: a forwardProp call whose inputs differ in number from the input layer
\* fails and leaves every node and every edge as it was.
C1_MismatchFailsUnchanged ==
  [][ (Calls("forwardProp") /\ Len(NewCall.inputs) # Len(network[1]))
        => (NewCall.threw /\ network' = network /\ edges' = edges) ]_vars

\* a mismatched forwardProp made on a network whose nodes already hold the
\* outputs of an earlier, successful forwardProp
C1_Witness ==
  /\ built
  /\ NumCalls >= 3
  /\ Last.op = "forwardProp" /\ Last.threw
  /\ Len(Last.inputs) # Len(network[1])
  /\ hist[2].op = "forwardProp" /\ ~hist[2].threw
  /\ ~REq(network[Len(network)][1].output, Zero)

\* C2: a build call whose inputIds differ in number from the first layer, or
\* whose last layer is not a single node, fails and returns no network.
C2_InvalidConfigRejected ==
  \A k \in 1..Len(hist) :
    (hist[k].op = "build" /\ ~ValidConfig(hist[k].cfg)) => (hist[k].threw /\ ~built)

RECURSIVE ShapeEdges(_, _)
\* the sum over adjacent layers, from the l-th on, of the products of their sizes
ShapeEdges(shape, l) ==
  IF l >= Len(shape) THEN 0 ELSE shape[l] * shape[l + 1] + ShapeEdges(shape, l + 1)

\* the number of places of a list of edges that hold the edge e
Occurrences(list, e) == Cardinality({k \in 1..Len(list) : list[k] = e})

\* C3: after a build with valid arguments the network is fully connected
\* between adjacent layers and nowhere else: layer l has networkShape[l]
\* nodes, input nodes have no input edges, every other node has exactly one
\* input edge from each node of the layer before, every edge is once in its
\* source's outputEdges and once in its destination's inputEdges, and the
\* edges number the sum of the products of adjacent layer sizes (9 for
\* [2, 3, 1]).
C3_FullBipartite ==
  (built /\ ValidConfig(hist[1].cfg)) =>
    LET shape == hist[1].cfg.shape
        N == Len(shape)
    IN  /\ Len(network) = N
        /\ \A l \in 1..N : Len(network[l]) = shape[l]
        /\ \A i \in 1..Len(network[1]) : Len(network[1][i].inputEdges) = 0
        /\ \A i \in 1..Len(network[N]) : Len(network[N][i].outputEdges) = 0
        /\ \A ref \in HiddenAndOutput :
             LET ie == NodeAt(Heap, ref).inputEdges
             IN  /\ Len(ie) = shape[ref[1] - 1]
                 /\ \A k \in 1..Len(ie) : edges[ie[k]].destNode = ref
                 /\ \A s \in 1..shape[ref[1] - 1] :
                      Cardinality({k \in 1..Len(ie) :
                                     edges[ie[k]].sourceNode = <<ref[1] - 1, s>>}) = 1
        /\ \A ref \in AllNodes :
             LET oe == NodeAt(Heap, ref).outputEdges
             IN  \A k \in 1..Len(oe) : edges[oe[k]].sourceNode = ref
        /\ \A e \in 1..Len(edges) :
             /\ edges[e].destNode[1] = edges[e].sourceNode[1] + 1
             /\ Occurrences(NodeAt(Heap, edges[e].sourceNode).outputEdges, e) = 1
             /\ Occurrences(NodeAt(Heap, edges[e].destNode).inputEdges, e) = 1
             /\ \A ref \in AllNodes :
                  /\ ref # edges[e].sourceNode
                       => Occurrences(NodeAt(Heap, ref).outputEdges, e) = 0
                  /\ ref # edges[e].destNode
                       => Occurrences(NodeAt(Heap, ref).inputEdges, e) = 0
        /\ Len(edges) = ShapeEdges(shape, 1)
        /\ shape = <<2, 3, 1>> => Len(edges) = 9

\* the [2, 3, 1] network, after calls have been made on it
C3_Witness ==
  /\ built
  /\ hist[1].cfg.shape = <<2, 3, 1>>
  /\ ValidConfig(hist[1].cfg)
  /\ Len(edges) = 9
  /\ NumCalls >= 3

\* the value of the spline on an edge at the output its source node holds
SplineOfSource(e) ==
  evaluate(edges[e].learnableFunction, NodeAt(Heap, edges[e].sourceNode).output)

\* C4: after a successful forwardProp(inputs), input node i holds inputs[i],
\* every other node holds its bias plus the sum over its input edges of the
\* edge's spline at the source node's output, every edge's lastInput is its
\* source node's output, and the value returned is the output-layer node's
\* output.
C4_ForwardOutputs ==
  (built /\ Last.op = "forwardProp" /\ ~Last.threw) =>
    /\ \A i \in 1..Len(network[1]) : network[1][i].output = Last.inputs[i]
    /\ \A ref \in HiddenAndOutput :
         LET node == NodeAt(Heap, ref)
         IN  REq(node.output,
                 RAdd(node.bias,
                      RSum([k \in 1..Len(node.inputEdges) |->
                              SplineOfSource(node.inputEdges[k])], 1)))
    /\ \A e \in 1..Len(edges) :
         REq(edges[e].lastInput, NodeAt(Heap, edges[e].sourceNode).output)
    /\ REq(Last.value, network[Len(network)][1].output)

\* a forwardProp through a hidden layer, with a nonzero bias, after the
\* control points have been changed by an update
C4_Witness ==
  /\ built
  /\ NumCalls = 4
  /\ hist[2].op = "backProp"
  /\ hist[3].op = "updateWeights" /\ ~REq(hist[3].learningRate, Zero)
  /\ Last.op = "forwardProp" /\ ~Last.threw
  /\ Len(network) = 3
  /\ \E ref \in HiddenAndOutput : ~REq(NodeAt(Heap, ref).bias, Zero)
  /\ ~REq(Last.value, Zero)

\* C5: an update of the weights leaves an edge with no accumulated gradient
\* as it was; on any other edge it subtracts from control point i
\* learningRate * accGradients[i] / numAccumulatedGrads and leaves every
\* accumulated gradient and the counter at zero.  After updateWeights every
\* edge's accumulator and counter are zero.
C5_EdgeUpdate ==
  [][ Calls("updateWeights") =>
        \A e \in 1..Len(edges) :
          LET old == edges[e]
              new == edges'[e]
              lr == NewCall.learningRate
          IN  /\ old.numAccumulatedGrads = 0 => new = old
              /\ old.numAccumulatedGrads > 0 =>
                   \A i \in 1..Len(old.learnableFunction.controlPoints) :
                     REq(new.learnableFunction.controlPoints[i],
                         RSub(old.learnableFunction.controlPoints[i],
                              RDiv(RMul(lr, old.accGradients[i]),
                                   Rat(old.numAccumulatedGrads, 1))))
              /\ new.numAccumulatedGrads = 0
              /\ \A i \in 1..Len(new.accGradients) : REq(new.accGradients[i], Zero) ]_vars

\* an update with a nonzero learning rate after two backward passes, which
\* has moved a control point
C5_Witness ==
  /\ built
  /\ NumCalls = 4
  /\ hist[2].op = "backProp" /\ hist[3].op = "backProp"
  /\ Last.op = "updateWeights" /\ ~REq(Last.learningRate, Zero)
  /\ \E e \in 1..Len(edges) :
       /\ edges[e].numAccumulatedGrads = 0
       /\ edges[e].learnableFunction.controlPoints
            # BuiltHeap(hist[1].cfg).edges[e].learnableFunction.controlPoints

\* C7: updateWeights(0) changes no control point and no bias.
C7_ZeroRateNoChange ==
  [][ (Calls("updateWeights") /\ REq(NewCall.learningRate, Zero)) =>
        /\ \A e \in 1..Len(edges) :
             SeqEq(edges'[e].learnableFunction.controlPoints,
                   edges[e].learnableFunction.controlPoints)
        /\ \A ref \in AllNodes :
             REq(network'[ref[1]][ref[2]].bias, NodeAt(Heap, ref).bias) ]_vars

\* updateWeights(0) after a forward and a backward pass that left a nonzero
\* outputDer on a node with a nonzero bias
C7_Witness ==
  /\ built
  /\ NumCalls = 4
  /\ hist[2].op = "forwardProp" /\ ~hist[2].threw
  /\ hist[3].op = "backProp"
  /\ Last.op = "updateWeights" /\ REq(Last.learningRate, Zero)
  /\ \E ref \in HiddenAndOutput :
       /\ ~REq(NodeAt(Heap, ref).bias, Zero)
       /\ ~REq(NodeAt(Heap, ref).outputDer, Zero)

\* the gradient an output edge of a node sends back to it
GradientThrough(e) ==
  RMul(NodeAt(Heap, edges[e].destNode).outputDer,
       derivative(edges[e].learnableFunction, edges[e].lastInput))

\* C9: after backwardProp(target) the output node's outputDer is the error
\* derivative at its output and the target, and every hidden node's
\* outputDer is the sum over its output edges of the destination's outputDer
\* times the derivative of the edge's spline at the edge's lastInput, with
\* nothing carried over from earlier backward passes.
C9_BackwardDerivatives ==
  (built /\ Last.op = "backProp") =>
    LET N == Len(network)
        out == network[N][1]
    IN  /\ REq(out.outputDer, errorDer(Last.errorFunc, out.output, Last.target))
        /\ \A ref \in HiddenAndOutput :
             ref[1] < N =>
               LET node == NodeAt(Heap, ref)
               IN  REq(node.outputDer,
                       RSum([k \in 1..Len(node.outputEdges) |->
                               GradientThrough(node.outputEdges[k])], 1))

\* a second backward pass on a network with a hidden layer, leaving a nonzero
\* outputDer on a hidden node
C9_Witness ==
  /\ built
  /\ NumCalls = 4
  /\ hist[2].op = "forwardProp" /\ ~hist[2].threw
  /\ hist[3].op = "backProp"
  /\ Last.op = "backProp"
  /\ Len(network) = 3
  /\ \E i \in 1..Len(network[2]) : ~REq(network[2][i].outputDer, Zero)

(***************************************************************************)
(* Training in batches: networks with biases, the examples of a batch      *)
(* presented by forwardProp and backProp, then one updateWeights.          *)
(***************************************************************************)
\* the longest sequence of calls made on one network when training in batches
MaxBatchSteps == 6

BatchConfigs == {cfg \in Configs : ValidConfig(cfg) /\ cfg.useBias}
BatchInputs == { <<Rat(3, 10)>>, <<Rat(1, 2), Rat(-1, 1)>> }
BatchRates == {Rat(1, 2)}

BatchForward(inputs) ==
  /\ built
  /\ Len(inputs) = Len(network[1])
  /\ ForwardProp(inputs, MaxBatchSteps)

NextBatch ==
  \/ \E cfg \in BatchConfigs : Build(cfg)
  \/ \E inputs \in BatchInputs : BatchForward(inputs)
  \/ \E target \in Targets, errorFunc \in ErrorFuncs :
       BackProp(target, errorFunc, MaxBatchSteps)
  \/ \E learningRate \in BatchRates : UpdateWeights(learningRate, MaxBatchSteps)

SpecBatch == Init /\ [][NextBatch]_vars

\* the network as the first k calls of hist left it
RECURSIVE Replay(_)
Replay(k) ==
  IF k <= 1 THEN BuiltHeap(hist[1].cfg)
  ELSE LET call == hist[k]
           H == Replay(k - 1)
       IN  CASE call.op = "forwardProp" -> kanForwardProp(H, call.inputs).heap
             [] call.op = "backProp" -> kanBackProp(H, call.target, call.errorFunc)
             [] call.op = "updateWeights" -> updateKANWeights(H, call.learningRate)

\* the last five calls are a batch of two identical examples and its update
TwoExampleBatch ==
  /\ built
  /\ NumCalls >= 6
  /\ LET n == NumCalls
     IN  /\ hist[n - 4].op = "forwardProp" /\ ~hist[n - 4].threw
         /\ hist[n - 3].op = "backProp"
         /\ hist[n - 2] = hist[n - 4]
         /\ hist[n - 1] = hist[n - 3]
         /\ hist[n].op = "updateWeights"

\* the network a batch of the one example leaves, from the state in which the
\* batch of two began
OneExampleBatch ==
  LET n == NumCalls
      start == Replay(n - 5)
      forward == kanForwardProp(start, hist[n - 4].inputs).heap
      backward == kanBackProp(forward, hist[n - 3].target, hist[n - 3].errorFunc)
  IN  [start |-> start, end |-> updateKANWeights(backward, hist[n].learningRate)]

\* C8: from the same network, a batch of one example and a batch of two
\* identical examples leave every non-input node with the same bias, and each
\* nonzero bias has changed by exactly learningRate times the outputDer the
\* last backProp left.
C8_BiasUsesLastOutputDer ==
  TwoExampleBatch =>
    LET one == OneExampleBatch
    IN  \A ref \in HiddenAndOutput :
          LET node == NodeAt(Heap, ref)
              bias0 == NodeAt(one.start, ref).bias
          IN  /\ REq(node.bias, NodeAt(one.end, ref).bias)
              /\ ~REq(bias0, Zero) =>
                   REq(RSub(bias0, node.bias),
                       RMul(Last.learningRate, node.outputDer))
              /\ REq(bias0, Zero) => REq(node.bias, Zero)

\* a batch of two identical examples, begun on a network that earlier calls
\* left with nonzero outputDer, that moved the bias of a hidden node and
\* left a zero bias at zero
C8_Witness ==
  /\ TwoExampleBatch
  /\ NumCalls = 7
  /\ hist[2].op = "backProp"
  /\ Len(network) = 3
  /\ \E i \in 1..Len(network[2]) :
       ~REq(network[2][i].bias, NodeAt(OneExampleBatch.start, <<2, i>>).bias)
  /\ \E ref \in HiddenAndOutput :
       REq(NodeAt(OneExampleBatch.start, ref).bias, Zero)

(***************************************************************************)
(* A single KANEdge, driven through its own methods.  probe holds the edge *)
(* and what has been done to it: calls, the accumulateGradients calls      *)
(* since the last update, each with the lastInput it met; start, the edge  *)
(* as it was before the first of them; applied, the last update.           *)
(***************************************************************************)
\* the longest sequence of method calls made on one edge
MaxEdgeSteps == 5

EdgeConfigs ==
  { [gridSize |-> 4, degree |-> 3, seed |-> 0],
    [gridSize |-> 2, degree |-> 1, seed |-> 1],
    [gridSize |-> 1, degree |-> 0, seed |-> 2] }
EdgeInputs == {Rat(3, 10), Rat(-3, 2)}
OutputGradients == {Rat(-1, 1), Rat(2, 3)}
EdgeRates == {Rat(1, 2)}

EdgeProbe(cfg) ==
  LET edge == NewKANEdge(<<1, 1>>, <<2, 1>>, "x1", "1", cfg.gridSize, cfg.degree,
                         RandomStream(cfg.seed, cfg.gridSize + 1))
  IN  [edge |-> edge, calls |-> <<>>, start |-> edge, applied |-> <<>>, steps |-> 0]

InitEdge ==
  /\ built = FALSE
  /\ network = <<>>
  /\ edges = <<>>
  /\ hist = <<>>
  /\ probe \in {EdgeProbe(cfg) : cfg \in EdgeConfigs}

EdgeForward(input) ==
  /\ probe.steps < MaxEdgeSteps
  /\ probe' = [probe EXCEPT !.edge = edgeForward(probe.edge, input)[1],
                            !.steps = probe.steps + 1]
  /\ UNCHANGED <<built, network, edges, hist>>

EdgeAccumulate(outputGradient) ==
  /\ probe.steps < MaxEdgeSteps
  /\ probe' = [probe EXCEPT
                 !.edge = accumulateGradients(probe.edge, outputGradient),
                 !.calls = Append(probe.calls, [outputGradient |-> outputGradient,
                                                lastInput |-> probe.edge.lastInput]),
                 !.start = IF probe.calls = <<>> THEN probe.edge ELSE probe.start,
                 !.steps = probe.steps + 1]
  /\ UNCHANGED <<built, network, edges, hist>>

EdgeUpdate(learningRate) ==
  /\ probe.steps < MaxEdgeSteps
  /\ probe' = [probe EXCEPT
                 !.edge = edgeUpdateParameters(probe.edge, learningRate),
                 !.calls = <<>>,
                 !.applied = <<[learningRate |-> learningRate, calls |-> probe.calls,
                                start |-> probe.start]>>,
                 !.steps = probe.steps + 1]
  /\ UNCHANGED <<built, network, edges, hist>>

NextEdge ==
  \/ \E input \in EdgeInputs : EdgeForward(input)
  \/ \E outputGradient \in OutputGradients : EdgeAccumulate(outputGradient)
  \/ \E learningRate \in EdgeRates : EdgeUpdate(learningRate)

SpecEdge == InitEdge /\ [][NextEdge]_vars

\* the last update followed k >= 1 accumulateGradients calls that all had the
\* same gradient and met the same lastInput
SameCalls ==
  /\ probe.applied # <<>>
  /\ probe.applied[1].calls # <<>>
  /\ \A j \in 1..Len(probe.applied[1].calls) :
       probe.applied[1].calls[j] = probe.applied[1].calls[1]

\* C6: after k >= 1 calls of accumulateGradients(g) with the same lastInput
\* and the same g, made on an edge with nothing accumulated, and then
\* updateParameters(lr), every control point has shifted as after a single
\* accumulateGradients(g) and updateParameters(lr), that is by
\* lr * g * basis_i(lastInput).
C6_AveragingCancelsCount ==
  SameCalls =>
    LET done == probe.applied[1]
        g == done.calls[1].outputGradient
        x == done.calls[1].lastInput
        old == done.start.learnableFunction.controlPoints
        new == probe.edge.learnableFunction.controlPoints
        single == edgeUpdateParameters(accumulateGradients(done.start, g),
                                       done.learningRate)
        basis == getControlPointGradients(done.start.learnableFunction, x)
    IN  /\ Len(new) = Len(old)
        /\ \A i \in 1..Len(old) :
             /\ REq(new[i], single.learnableFunction.controlPoints[i])
             /\ REq(RSub(old[i], new[i]),
                    RMul(done.learningRate, RMul(g, basis[i])))

\* three identical accumulateGradients calls after a forward, then an update
\* that moved a control point
C6_Witness ==
  /\ SameCalls
  /\ Len(probe.applied[1].calls) = 3
  /\ ~REq(probe.applied[1].calls[1].lastInput, Zero)
  /\ probe.edge.learnableFunction.controlPoints
       # probe.applied[1].start.learnableFunction.controlPoints
  /\ probe.edge.learnableFunction.degree = 3

(***************************************************************************)
(* A single LearnableFunction and one call of one of its methods.  probe   *)
(* holds the function, the input, the method called and what it returned.  *)
(***************************************************************************)
\* the largest gridSize of a LearnableFunction under test
MaxGrid == 4

SplineRanges == { <<Rat(-1, 1), Rat(1, 1)>>, <<Rat(0, 1), Rat(3, 1)>> }

\* inputs below, at the ends of, inside and above a range, among them every
\* knot of a knot vector of up to six intervals: the sixtieths of the range
Sixtieths ==
  { -30, -1, 0, 1, 5, 10, 12, 15, 20, 24, 29, 30, 31, 36, 40, 45, 48, 50, 59,
    60, 61, 90 }
SplineInput(range, j) ==
  RAdd(range[1], RDiv(RMul(RSub(range[2], range[1]), Rat(j, 1)), Rat(60, 1)))

SplineProbes ==
  { [lf |-> NewLearnableFunction("f", gridSize, range, degree,
                                 RandomStream(1, gridSize + 1)),
     x |-> SplineInput(range, j), fn |-> "none", result |-> <<>>] :
      gridSize \in 1..MaxGrid, degree \in 0..MaxGrid, range \in SplineRanges,
      j \in Sixtieths }

InitSpline ==
  /\ built = FALSE
  /\ network = <<>>
  /\ edges = <<>>
  /\ hist = <<>>
  /\ probe \in SplineProbes

CallGetControlPointGradients ==
  /\ probe.fn = "none"
  /\ probe' = [probe EXCEPT !.fn = "getControlPointGradients",
                            !.result = getControlPointGradients(probe.lf, probe.x)]
  /\ UNCHANGED <<built, network, edges, hist>>

CallEvaluate ==
  /\ probe.fn = "none"
  /\ probe' = [probe EXCEPT !.fn = "evaluate",
                            !.result = evaluate(probe.lf, probe.x)]
  /\ UNCHANGED <<built, network, edges, hist>>

CallFindKnotSpan ==
  /\ probe.fn = "none"
  /\ probe' = [probe EXCEPT !.fn = "findKnotSpan",
                            !.result = findKnotSpan(probe.lf, clamp(probe.lf, probe.x))]
  /\ UNCHANGED <<built, network, edges, hist>>

NextSpline ==
  \/ CallGetControlPointGradients
  \/ CallEvaluate
  \/ CallFindKnotSpan

SpecSpline == InitSpline /\ [][NextSpline]_vars

\* the knot span of the clamped input of the probe
ActiveSpan == findKnotSpan(probe.lf, clamp(probe.lf, probe.x))

\* C10: for every gridSize >= 1, degree p with 0 <= p <= gridSize - 1 and
\* input x, inside or outside the range, getControlPointGradients(x) returns
\* gridSize + 1 entries that sum to 1, every entry outside the indices
\* span - p .. span of the active knot span being 0.
C10_PartitionOfUnity ==
  probe.fn = "getControlPointGradients" =>
    LET lf == probe.lf
        p == lf.degree
    IN  /\ lf.gridSize >= 1 /\ 0 <= p /\ p <= lf.gridSize - 1
        /\ Len(probe.result) = lf.gridSize + 1
        /\ REq(RSum(probe.result, 1), One)
        /\ \A c \in 1..Len(probe.result) :
             (c - 1 < ActiveSpan - p \/ c - 1 > ActiveSpan)
               => REq(probe.result[c], Zero)

\* the gradients of a quadratic spline with five control points at an input
\* strictly inside the range: three nonzero entries, two zero ones
C10_Witness ==
  /\ probe.fn = "getControlPointGradients"
  /\ probe.lf.gridSize = 4 /\ probe.lf.degree = 2
  /\ RLt(probe.lf.inputRange[1], probe.x) /\ RLt(probe.x, probe.lf.inputRange[2])
  /\ Cardinality({c \in 1..Len(probe.result) : ~REq(probe.result[c], Zero)}) = 3
  /\ ActiveSpan = 3

\* C11: for every x >= inputRange.max, evaluate(x) equals evaluate of
\* inputRange.max, which is the last control point, and for every
\* x <= inputRange.min, evaluate(x) equals evaluate of inputRange.min, which
\* is the first control point.
C11_ClampedEnds ==
  probe.fn = "evaluate" =>
    LET lf == probe.lf
        min == lf.inputRange[1]
        max == lf.inputRange[2]
    IN  /\ RGe(probe.x, max) =>
             /\ REq(probe.result, evaluate(lf, max))
             /\ REq(probe.result, lf.controlPoints[Len(lf.controlPoints)])
        /\ RLe(probe.x, min) =>
             /\ REq(probe.result, evaluate(lf, min))
             /\ REq(probe.result, lf.controlPoints[1])

\* evaluate of a cubic spline at an input strictly above its range, with a
\* last control point that differs from the first
C11_Witness ==
  /\ probe.fn = "evaluate"
  /\ probe.lf.degree = 3
  /\ RLt(probe.lf.inputRange[2], probe.x)
  /\ REq(probe.result, probe.lf.controlPoints[Len(probe.lf.controlPoints)])
  /\ ~REq(probe.result, probe.lf.controlPoints[1])

\* the knot indices i with knotVector[i] <= x < knotVector[i + 1]
SpansHolding(lf, x) ==
  { i \in 0..(Len(lf.knotVector) - 2) :
      RLe(At(lf.knotVector, i), x) /\ RLt(x, At(lf.knotVector, i + 1)) }

\* C14: for every gridSize >= 1, degree p in 0..gridSize-1 and x clamped into
\* the range, findKnotSpan returns a span with p <= span <= n, n the last
\* control point index: n when x >= knotVector[n+1], p when
\* x <= knotVector[p], and otherwise the unique index mid with
\* knotVector[mid] <= x < knotVector[mid+1].
C14_KnotSpan ==
  probe.fn = "findKnotSpan" =>
    LET lf == probe.lf
        p == lf.degree
        n == Len(lf.controlPoints) - 1
        x == clamp(lf, probe.x)
        span == probe.result
    IN  /\ Len(lf.knotVector) = lf.gridSize + 1 + p + 1
        /\ p <= span /\ span <= n
        /\ \A j \in 0..p : span - p + j >= 0 /\ span - p + j < Len(lf.controlPoints)
        /\ RGe(x, At(lf.knotVector, n + 1)) => span = n
        /\ (RLt(x, At(lf.knotVector, n + 1)) /\ RLe(x, At(lf.knotVector, p)))
             => span = p
        /\ (RLt(x, At(lf.knotVector, n + 1)) /\ ~RLe(x, At(lf.knotVector, p)))
             => SpansHolding(lf, x) = {span}

\* a search that the binary search settled: x strictly inside the range, in
\* neither the first nor the last span of a spline of three or more spans
C14_Witness ==
  /\ probe.fn = "findKnotSpan"
  /\ probe.lf.degree >= 1
  /\ probe.lf.gridSize - probe.lf.degree >= 2
  /\ probe.lf.degree < probe.result
  /\ probe.result < Len(probe.lf.controlPoints) - 1
  /\ SpansHolding(probe.lf, probe.x) = {probe.result}

\* C12: a node built without a bias (an input-layer node, or any node when
\* useBias is false) has bias 0 after build and after every later call, and
\* no call changes a bias whose value is 0.
C12_ZeroBiasStays ==
  [][ built' =>
        /\ \A ref \in AllNodes' :
             (ref[1] = 1 \/ ~hist'[1].cfg.useBias)
               => network'[ref[1]][ref[2]].bias = Zero
        /\ built =>
             \A ref \in AllNodes :
               REq(NodeAt(Heap, ref).bias, Zero)
                 => REq(network'[ref[1]][ref[2]].bias, Zero) ]_vars

\* an update with a nonzero learning rate that met a nonzero outputDer on a
\* non-input node whose bias is 0
C12_Witness ==
  /\ built
  /\ Last.op = "updateWeights" /\ ~REq(Last.learningRate, Zero)
  /\ hist[NumCalls - 1].op = "backProp"
  /\ \E ref \in HiddenAndOutput :
       /\ REq(NodeAt(Heap, ref).bias, Zero)
       /\ ~REq(NodeAt(Heap, ref).outputDer, Zero)

\* the number of backProp calls among the first k calls that no updateWeights
\* call follows
RECURSIVE BackPropsSinceUpdate(_)
BackPropsSinceUpdate(k) ==
  IF k <= 1 \/ hist[k].op = "updateWeights" THEN 0
  ELSE (IF hist[k].op = "backProp" THEN 1 ELSE 0) + BackPropsSinceUpdate(k - 1)

\* C15: in every reachable state each edge's numAccumulatedGrads is the
\* number of backProp calls made since the most recent updateWeights call, or
\* since build if there was none, so all edges carry the same counter; and
\* accGradients is all zero whenever the counter is 0.
C15_CounterCountsBackProps ==
  built =>
    \A e \in 1..Len(edges) :
      /\ edges[e].numAccumulatedGrads = BackPropsSinceUpdate(NumCalls)
      /\ edges[e].numAccumulatedGrads = edges[1].numAccumulatedGrads
      /\ edges[e].numAccumulatedGrads = 0 =>
           \A i \in 1..Len(edges[e].accGradients) :
             REq(edges[e].accGradients[i], Zero)

\* a network of nine edges on which two backProp calls were made, an update
\* between them
C15_Witness ==
  /\ built
  /\ NumCalls = 4
  /\ hist[2].op = "backProp" /\ hist[3].op = "updateWeights" /\ hist[4].op = "backProp"
  /\ Len(edges) = 9
  /\ \A e \in 1..Len(edges) : edges[e].numAccumulatedGrads = 1
  /\ \E e \in 1..Len(edges), i \in 1..3 : ~REq(edges[e].accGradients[i], Zero)

\* an updateWeights call was made and no backProp call since
UpdatedAndNoBackPropSince ==
  /\ BackPropsSinceUpdate(NumCalls) = 0
  /\ \E k \in 2..NumCalls : hist[k].op = "updateWeights"

\* C16: an updateWeights(lr) call that follows an updateWeights call with no
\* backProp between them leaves every control point, every accGradients
\* entry and every counter as it was, and subtracts lr * outputDer from every
\* nonzero bias again.
C16_SecondUpdate ==
  [][ (Calls("updateWeights") /\ UpdatedAndNoBackPropSince) =>
        /\ edges' = edges
        /\ \A ref \in AllNodes :
             LET node == NodeAt(Heap, ref)
                 bias == network'[ref[1]][ref[2]].bias
             IN  IF REq(node.bias, Zero) THEN REq(bias, Zero)
                 ELSE REq(bias, RSub(node.bias,
                                     RMul(NewCall.learningRate, node.outputDer))) ]_vars

\* backProp and two updates with the same nonzero learning rate: a nonzero
\* bias has been stepped twice by learningRate * outputDer
C16_Witness ==
  /\ built
  /\ NumCalls = 4
  /\ hist[2].op = "backProp" /\ hist[3].op = "updateWeights"
  /\ Last.op = "updateWeights" /\ hist[3] = Last
  /\ ~REq(Last.learningRate, Zero)
  /\ \E ref \in HiddenAndOutput :
       LET bias0 == NodeAt(BuiltHeap(hist[1].cfg), ref).bias
           node == NodeAt(Heap, ref)
       IN  /\ ~REq(bias0, Zero)
           /\ ~REq(node.outputDer, Zero)
           /\ REq(RSub(bias0, node.bias),
                  RMul(Rat(2, 1), RMul(Last.learningRate, node.outputDer)))

\* the fields of the edges that never change after build
Shape(edge) ==
  [id |-> edge.id, sourceNode |-> edge.sourceNode, destNode |-> edge.destNode,
   gridSize |-> edge.learnableFunction.gridSize,
   degree |-> edge.learnableFunction.degree,
   inputRange |-> edge.learnableFunction.inputRange,
   knotVector |-> edge.learnableFunction.knotVector,
   numControlPoints |-> Len(edge.learnableFunction.controlPoints),
   numAccGradients |-> Len(edge.accGradients)]

\* C17: control points and biases change only inside updateWeights; knot
\* vectors and the lengths of controlPoints and accGradients never change
\* after build; forwardProp changes only node outputs and edge lastInput;
\* backProp changes only node outputDer and edge accGradients and
\* numAccumulatedGrads; updateWeights changes only control points, biases,
\* accGradients and numAccumulatedGrads.
C17_Frames ==
  [][ built =>
        /\ Len(network') = Len(network)
        /\ Len(edges') = Len(edges)
        /\ \A l \in 1..Len(network) : Len(network'[l]) = Len(network[l])
        /\ \A e \in 1..Len(edges) : Shape(edges'[e]) = Shape(edges[e])
        /\ Calls("forwardProp") =>
             /\ \A ref \in AllNodes :
                  [network'[ref[1]][ref[2]] EXCEPT !.output = NodeAt(Heap, ref).output]
                    = NodeAt(Heap, ref)
             /\ \A e \in 1..Len(edges) :
                  [edges'[e] EXCEPT !.lastInput = edges[e].lastInput] = edges[e]
        /\ Calls("backProp") =>
             /\ \A ref \in AllNodes :
                  [network'[ref[1]][ref[2]] EXCEPT
                     !.outputDer = NodeAt(Heap, ref).outputDer] = NodeAt(Heap, ref)
             /\ \A e \in 1..Len(edges) :
                  [edges'[e] EXCEPT
                     !.accGradients = edges[e].accGradients,
                     !.numAccumulatedGrads = edges[e].numAccumulatedGrads] = edges[e]
        /\ Calls("updateWeights") =>
             /\ \A ref \in AllNodes :
                  [network'[ref[1]][ref[2]] EXCEPT !.bias = NodeAt(Heap, ref).bias]
                    = NodeAt(Heap, ref)
             /\ \A e \in 1..Len(edges) :
                  [edges'[e] EXCEPT
                     !.learnableFunction.controlPoints =
                        edges[e].learnableFunction.controlPoints,
                     !.accGradients = edges[e].accGradients,
                     !.numAccumulatedGrads = edges[e].numAccumulatedGrads] = edges[e] ]_vars

\* a forward pass, a backward pass and an update that each changed what it
\* may change: outputs, outputDer, control points and a bias
C17_Witness ==
  /\ built
  /\ NumCalls = 4
  /\ hist[2].op = "forwardProp" /\ ~hist[2].threw
  /\ hist[3].op = "backProp"
  /\ Last.op = "updateWeights" /\ ~REq(Last.learningRate, Zero)
  /\ ~REq(network[Len(network)][1].output, Zero)
  /\ ~REq(network[Len(network)][1].outputDer, Zero)
  /\ \E e \in 1..Len(edges) :
       /\ ~REq(edges[e].lastInput, Zero)
       /\ edges[e].learnableFunction.controlPoints
            # BuiltHeap(hist[1].cfg).edges[e].learnableFunction.controlPoints
  /\ \E ref \in HiddenAndOutput :
       ~REq(NodeAt(Heap, ref).bias, NodeAt(BuiltHeap(hist[1].cfg), ref).bias)

\* the orders in which the nodes of a layer of n nodes can be processed, and
\* the choices of one such order for every layer of the network
Perms(n) == { s \in [1..n -> 1..n] : \A i, j \in 1..n : i # j => s[i] # s[j] }
AllOrders ==
  { orders \in [1..Len(network) -> UNION { Perms(n) : n \in 1..3 }] :
      \A l \in 1..Len(network) : Len(orders[l]) = Len(network[l]) }

\* every node of layers 2..N occurs exactly once in the sequence of visits
VisitsEachOnce(visits) ==
  /\ Len(visits) = Cardinality(HiddenAndOutput)
  /\ \A ref \in HiddenAndOutput : \E a \in 1..Len(visits) : visits[a] = ref

\* C13: a forward pass that does not throw calls forward once on every node
\* of layers 2..N, all the nodes of a layer before any node of a later layer,
\* and a backward pass calls backward once on every node of layers N..2, all
\* the nodes of a layer before any node of an earlier layer; and the network
\* and the edges either pass leaves behind (output, outputDer, bias,
\* lastInput, accGradients, numAccumulatedGrads, control points) are the ones
\* it leaves behind for every other order of the nodes inside each layer.
\* Sums are exact here: reordering the additions into a source node's
\* outputDer changes nothing.
C13_PassOrdering ==
  [][ /\ (Calls("forwardProp") /\ ~NewCall.threw) =>
           /\ VisitsEachOnce(NewCall.visits)
           /\ \A a, b \in 1..Len(NewCall.visits) :
                a < b => NewCall.visits[a][1] <= NewCall.visits[b][1]
           /\ NewCall.visits[1][1] = 2
           /\ \A orders \in AllOrders :
                \E r \in {kanForwardPropIn(Heap, NewCall.inputs, orders)} :
                  /\ ~r.threw
                  /\ r.heap.network = network'
                  /\ r.heap.edges = edges'
                  /\ r.value = NewCall.value
      /\ Calls("backProp") =>
           /\ VisitsEachOnce(NewCall.visits)
           /\ \A a, b \in 1..Len(NewCall.visits) :
                a < b => NewCall.visits[a][1] >= NewCall.visits[b][1]
           /\ NewCall.visits[1][1] = Len(network)
           /\ \A orders \in AllOrders :
                \E r \in {kanBackPropIn(Heap, NewCall.target, NewCall.errorFunc,
                                        orders)} :
                  /\ r.network = network'
                  /\ r.edges = edges' ]_vars

\* a backward pass after a forward pass over a network whose hidden layer has
\* three nodes, so that six orders of that layer are compared; the three
\* hidden nodes sent three different contributions to an input node
C13_Witness ==
  /\ built
  /\ Len(network) = 3 /\ Len(network[2]) = 3
  /\ NumCalls >= 3
  /\ hist[Len(hist) - 1].op = "forwardProp" /\ ~hist[Len(hist) - 1].threw
  /\ Len(hist[Len(hist) - 1].visits) = 4
  /\ Last.op = "backProp"
  /\ Last.visits = <<(<<3, 1>>), (<<2, 1>>), (<<2, 2>>), (<<2, 3>>)>>
  /\ ~REq(network[1][1].outputDer, Zero)
  /\ \A i, j \in 1..3 :
       i # j =>
         ~REq(RMul(network[2][i].outputDer,
                   derivative(edges[network[2][i].inputEdges[1]].learnableFunction,
                              edges[network[2][i].inputEdges[1]].lastInput)),
              RMul(network[2][j].outputDer,
                   derivative(edges[network[2][j].inputEdges[1]].learnableFunction,
                              edges[network[2][j].inputEdges[1]].lastInput)))
====
